---- MODULE Spec2Model ----
(***************************************************************************)
(* Model of the package resolver/fetcher of edgedb-cli                     *)
(* (src/portable/repository.rs): the resilient fetch loop get_header, the  *)
(* version/channel query model and the package selection.                  *)
(***************************************************************************)
EXTENDS Integers, Sequences, FiniteSets, TLC

VARIABLES
    \* ---- get_header: the locals of one call ----
    original_url,   \* the argument of the call
    url,            \* `url`: the current URL
    attempt,        \* `attempt`
    retry,          \* `retry`: number of items taken from retry_seconds()
    pc,             \* "fetch" | "match" | "done": position in the loop
    res,            \* the outcome of the request being matched
    result,         \* what the call returned
    \* ---- get_header: what an observer of the call sees ----
    requests,       \* number of requests issued
    reqUrl,         \* URL of the latest request
    sleeps,         \* the arguments of task::sleep, in order (seconds)
    nRetryable,     \* number of 5xx/429 responses received
    nRedirect,      \* number of redirect hops followed
    retried,        \* set of the statuses that were answered by a backoff
    lastRedir,      \* the latest redirect followed: the URL then current, its
                    \* Location, whether permanent, whether a backoff followed
    \* ---- version/channel model and package selection ----
    op,             \* which operation has been applied ("idle" before)
    query,          \* a Query
    ver,            \* a Build version
    candidates,     \* what get_server_packages(query.channel) returned
    out,            \* the value the operation returned
    arg,            \* the argument of the operation
    token,          \* the token as_config_value gave for a constructed Query
    back,           \* what deserializing that token gave
    body,           \* the body of the response to the index request
    dl,             \* the local state of a download call
    file,           \* the file at the destination path of the download
    calls,          \* the local state of each of two download calls
    dests,          \* the file at the destination path of each of them
    wait            \* the local state of a wait_instance_create call

fetchVars == <<original_url, url, attempt, retry, pc, res, result,
               requests, reqUrl, sleeps, nRetryable, nRedirect, retried,
               lastRedir>>
queryVars ==
    <<op, query, ver, candidates, out, arg, token, back, body, dl, file,
      calls, dests, wait>>
vars == <<fetchVars, queryVars>>

-----------------------------------------------------------------------------
(* URLs and Location values.  A URL is a host and a path (a sequence of    *)
(* segments); a Location header value is an absolute URL, an absolute      *)
(* path ("/foo"), a relative path ("foo"), or text that is no URL.         *)

Url(h, p) == [host |-> h, path |-> p]

HostAB    == Url("host", <<"a", "b">>)          \* https://host/a/b
HostFoo   == Url("host", <<"foo">>)             \* https://host/foo
OtherFoo  == Url("other", <<"foo">>)            \* https://other/foo

NoLocation == [kind |-> "none"]
Locations ==
    { [kind |-> "absolute", url |-> OtherFoo],   \* "https://other/foo"
      [kind |-> "absolute", url |-> HostAB],     \* "https://host/a/b"
      [kind |-> "abspath", path |-> <<"foo">>],  \* "/foo"
      [kind |-> "relpath", path |-> <<"foo">>],  \* "foo"
      [kind |-> "bad"],                          \* "https://" (no host)
      [kind |-> "badrel"] }                      \* "//[" (relative, bad host)

\* Url::parse(location)
Url_parse(location) ==
    IF location.kind = "absolute"
    THEN [ok |-> TRUE, url |-> location.url]
    ELSE IF location.kind \in {"abspath", "relpath", "badrel"}
    THEN [ok |-> FALSE, err |-> "RelativeUrlWithoutBase"]
    ELSE [ok |-> FALSE, err |-> "EmptyHost"]

\* url.join(location): RFC 3986 reference resolution against `base`
Url_join(base, location) ==
    IF location.kind = "abspath"
    THEN [ok |-> TRUE, url |-> Url(base.host, location.path)]
    ELSE IF location.kind = "relpath"
    THEN [ok |-> TRUE,
          url |-> Url(base.host,
                      SubSeq(base.path, 1, Len(base.path) - 1)
                          \o location.path)]
    ELSE [ok |-> FALSE, err |-> "InvalidIpv6Address"]

\* a mutant of new_url: a relative Location is joined to the original URL
new_url_from_original(cur, location) ==
    LET p == Url_parse(location) IN
    IF p.ok THEN p
    ELSE IF p.err = "RelativeUrlWithoutBase"
    THEN Url_join(original_url, location)
    ELSE p

\* `new_url`: the Location resolved against the current URL
new_url(cur, location) ==
    LET p == Url_parse(location) IN
    IF p.ok THEN p
    ELSE IF p.err = "RelativeUrlWithoutBase"
    THEN Url_join(cur, location)
    ELSE p

-----------------------------------------------------------------------------
(* Responses: a transport failure, or a status with an optional Location   *)
(* (the last value of the header).                                         *)

Statuses == {100, 200, 204, 301, 302, 308, 400, 404, 429, 500, 503}

is_success(s)      == s \in 200..299
is_redirection(s)  == s \in 300..399
is_server_error(s) == s \in 500..599
MovedPermanently   == 301
PermanentRedirect  == 308
TooManyRequests    == 429
NotFound           == 404

TransportError == [kind |-> "err"]
Response(s, l) == [kind |-> "ok", status |-> s, location |-> l]
Responses ==
    {TransportError}
    \cup {Response(s, NoLocation) : s \in Statuses}
    \cup {Response(s, l) : s \in {301, 302, 308}, l \in Locations}
NoResponse == [kind |-> "none"]

MAX_ATTEMPTS == 10

\* a mutant of retry_seconds: the delay doubles from 5 seconds, up to 60
retry_seconds_doubling(i) == IF i <= 4 THEN <<5, 10, 20, 40>>[i] ELSE 60

\* the i-th item (from 1) of the iterator retry_seconds()
retry_seconds(i) == IF i <= 4 THEN <<5, 15, 30, 60>>[i] ELSE 60

\* a mutant of is_retryable: every 4xx is retried like a 429
is_retryable_any_4xx(s) == is_server_error(s) \/ s \in 400..499

\* a mutant of is_retryable: the 429 case is missing
is_retryable_5xx_only(s) == is_server_error(s)

\* the guard of the backoff arm
is_retryable(s) == is_server_error(s) \/ s = TooManyRequests

\* a mutant of too_many: the cap is compared one too late
too_many_late(a) == a > MAX_ATTEMPTS + 1

\* `attempt > MAX_ATTEMPTS`
too_many(a) == a > MAX_ATTEMPTS

Pending == [kind |-> "pending"]
Ok(r)   == [kind |-> "Ok", res |-> r]
Err(e)  == [kind |-> "Err", error |-> e]

\* the tail of a loop iteration that did not return
Count ==
    /\ attempt' = attempt + 1
    /\ IF too_many(attempt + 1)
       THEN pc' = "done" /\ result' = Err("too many attempts")
       ELSE pc' = "fetch" /\ result' = result

Return(r) == pc' = "done" /\ result' = r /\ attempt' = attempt

history == <<requests, reqUrl, sleeps, nRetryable, nRedirect, retried,
            lastRedir>>

InitFetch ==
    /\ original_url \in {HostAB, OtherFoo}
    /\ url = original_url
    /\ attempt = 0
    /\ retry = 0
    /\ pc = "fetch"
    /\ res = NoResponse
    /\ result = Pending
    /\ requests = 0
    /\ reqUrl = original_url
    /\ sleeps = <<>>
    /\ nRetryable = 0
    /\ nRedirect = 0
    /\ retried = {}
    /\ lastRedir = [kind |-> "none"]

\* surf::get(&url).header("User-Agent", USER_AGENT).await
Fetch ==
    /\ pc = "fetch"
    /\ \E r \in Responses : res' = r
    /\ pc' = "match"
    /\ requests' = requests + 1
    /\ reqUrl' = url
    /\ UNCHANGED <<original_url, url, attempt, retry, result, sleeps,
                   nRetryable, nRedirect, retried, lastRedir>>
    /\ UNCHANGED queryVars

\* Ok(res) if res.status().is_success()
Success ==
    /\ pc = "match" /\ res.kind = "ok"
    /\ is_success(res.status)
    /\ Return(Ok(res))
    /\ UNCHANGED <<original_url, url, retry, res, history>>
    /\ UNCHANGED queryVars

\* what lastRedir becomes when the redirect `res` is followed from `url`
Followed ==
    [kind |-> "some", base |-> url, location |-> res.location,
     permanent |-> res.status \in {MovedPermanently, PermanentRedirect},
     retried |-> FALSE]

\* a mutant of Redirect: a redirect hop consumes a backoff step
Redirect_consuming_backoff ==
    /\ pc = "match" /\ res.kind = "ok"
    /\ ~is_success(res.status)
    /\ is_redirection(res.status)
    /\ IF res.location = NoLocation
       THEN /\ Return(Err("unexpected redirect kind"))
            /\ UNCHANGED <<url, retry, nRedirect, lastRedir>>
       ELSE LET n == new_url(url, res.location) IN
            IF n.ok
            THEN /\ url' = n.url
                 /\ retry' = retry + 1
                 /\ nRedirect' = nRedirect + 1
                 /\ lastRedir' = Followed
                 /\ Count
            ELSE /\ Return(Err(n.err))
                 /\ UNCHANGED <<url, retry, nRedirect, lastRedir>>
    /\ UNCHANGED <<original_url, res, requests, reqUrl, sleeps, nRetryable,
                   retried>>
    /\ UNCHANGED queryVars

\* Ok(res) if res.status().is_redirection()
Redirect ==
    /\ pc = "match" /\ res.kind = "ok"
    /\ ~is_success(res.status)
    /\ is_redirection(res.status)
    /\ IF res.location = NoLocation
       THEN /\ Return(Err("unexpected redirect kind"))
            /\ UNCHANGED <<url, nRedirect, lastRedir>>
       ELSE LET n == new_url(url, res.location) IN
            IF n.ok
            THEN /\ url' = n.url
                 /\ nRedirect' = nRedirect + 1
                 /\ lastRedir' = Followed
                 /\ Count
            ELSE /\ Return(Err(n.err))
                 /\ UNCHANGED <<url, nRedirect, lastRedir>>
    /\ UNCHANGED <<original_url, retry, res, requests, reqUrl, sleeps,
                   nRetryable, retried>>
    /\ UNCHANGED queryVars

\* Ok(res) if res.status().is_server_error() || res.status() == TooManyRequests
Backoff ==
    /\ pc = "match" /\ res.kind = "ok"
    /\ ~is_success(res.status) /\ ~is_redirection(res.status)
    /\ is_retryable(res.status)
    /\ LET secs == retry_seconds(retry + 1) IN
       /\ retry' = retry + 1
       /\ sleeps' = Append(sleeps, secs)
    /\ nRetryable' = nRetryable + 1
    /\ retried' = retried \cup {res.status}
    /\ lastRedir' = IF lastRedir.kind = "some"
                    THEN [lastRedir EXCEPT !.retried = TRUE]
                    ELSE lastRedir
    /\ Count
    /\ UNCHANGED <<original_url, url, res, requests, reqUrl, nRedirect>>
    /\ UNCHANGED queryVars

\* Ok(res) if res.status() == StatusCode::NotFound
PageNotFound ==
    /\ pc = "match" /\ res.kind = "ok"
    /\ ~is_success(res.status) /\ ~is_redirection(res.status)
    /\ ~is_retryable(res.status)
    /\ res.status = NotFound
    /\ Return(Err("NotFound"))
    /\ UNCHANGED <<original_url, url, retry, res, history>>
    /\ UNCHANGED queryVars

\* Ok(res) => return Err(HttpFailure(res))
Failure ==
    /\ pc = "match" /\ res.kind = "ok"
    /\ ~is_success(res.status) /\ ~is_redirection(res.status)
    /\ ~is_retryable(res.status)
    /\ res.status # NotFound
    /\ Return(Err("HttpFailure"))
    /\ UNCHANGED <<original_url, url, retry, res, history>>
    /\ UNCHANGED queryVars

\* Err(e) => return Err(HttpError(e))
Transport ==
    /\ pc = "match" /\ res.kind = "err"
    /\ Return(Err("HttpError"))
    /\ UNCHANGED <<original_url, url, retry, res, history>>
    /\ UNCHANGED queryVars

-----------------------------------------------------------------------------
(* The version algebra (crate::portable::ver).  A Specific version is a    *)
(* major number and a minor classification; a Build projects to its        *)
(* Specific version; a Filter is a major number and an optional minor      *)
(* constraint.                                                             *)

MaxMajor    == 2    \* majors are 1..MaxMajor
MaxNum      == 2    \* minor, prerelease and dev numbers are 1..MaxNum
MaxPackages == 3    \* longest candidate list

MinorKinds   == {"Dev", "Alpha", "Beta", "Rc", "Minor"}
Prerelease   == {"Alpha", "Beta", "Rc"}
MinorVersion == [kind : MinorKinds, n : 1..MaxNum]
Specific     == [major : 1..MaxMajor, minor : MinorVersion]
Build        == [specific : Specific]

None         == [kind |-> "None"]
Some(x)      == [kind |-> "Some", value |-> x]
FilterMinor  == [kind : MinorKinds \ {"Dev"}, n : 1..MaxNum]
Filter       == [major : 1..MaxMajor, minor : FilterMinor \cup {None}]

Channels == {"Stable", "Nightly"}
Query    == [channel : Channels, version : Filter \cup {None}]

\* Build::specific()
specific(bld) == bld.specific

\* the position of a minor kind in the ordering of MinorVersion
KindRank(k) ==
    CASE k = "Dev" -> 0 [] k = "Alpha" -> 1 [] k = "Beta" -> 2
      [] k = "Rc" -> 3 [] k = "Minor" -> 4

\* Ord for Specific: by major, then minor kind, then number
SpecificLeq(a, b) ==
    \/ a.major < b.major
    \/ /\ a.major = b.major
       /\ \/ KindRank(a.minor.kind) < KindRank(b.minor.kind)
          \/ /\ a.minor.kind = b.minor.kind
             /\ a.minor.n <= b.minor.n

\* Filter::matches: major equality plus minor kind/number compatibility
Filter_matches(f, bld) ==
    /\ f.major = specific(bld).major
    /\ \/ f.minor = None
       \/ /\ f.minor.kind = specific(bld).minor.kind
          /\ f.minor.n <= specific(bld).minor.n

-----------------------------------------------------------------------------
(* Channel and Query (repository.rs).                                      *)

ChannelOk(c) == [ok |-> TRUE, channel |-> c]
ChannelErr   == [ok |-> FALSE,
                 error |-> "prerelease versions > 1.0 are no supported yet"]

\* a mutant of Channel_from_version: the exception for major 1 is missing
Channel_from_version_no_exception(v) ==
    IF v.minor.kind = "Dev" THEN ChannelOk("Nightly")
    ELSE IF v.minor.kind = "Minor" THEN ChannelOk("Stable")
    ELSE ChannelErr

\* Channel::from_version
Channel_from_version(v) ==
    IF v.minor.kind = "Dev" THEN ChannelOk("Nightly")
    ELSE IF v.minor.kind = "Minor" THEN ChannelOk("Stable")
    ELSE IF v.major = 1 THEN ChannelOk("Stable")
    ELSE ChannelErr

\* a mutant of Query_matches: a version without a channel matches a wildcard
Query_matches_unwrap_or_true(self, bld) ==
    IF self.version # None
    THEN Filter_matches(self.version, bld)
    ELSE LET c == Channel_from_version(specific(bld)) IN
         IF c.ok THEN self.channel = c.channel ELSE TRUE

\* Query::matches
Query_matches(self, bld) ==
    IF self.version # None
    THEN Filter_matches(self.version, bld)
    ELSE LET c == Channel_from_version(specific(bld)) IN
         IF c.ok THEN self.channel = c.channel ELSE FALSE

-----------------------------------------------------------------------------
(* Version text.  A text is a sequence of pieces: "1" is <<"1">>, "1.2" is *)
(* <<"1", ".", "2">>, "1.0-rc.2" is <<"1", ".", "0", "-rc.", "2">>.         *)

Digits == <<"0", "1", "2", "3", "4", "5", "6", "7", "8", "9">>
IsNum(piece) == \E i \in 1..Len(Digits) : Digits[i] = piece
Num(piece)   == (CHOOSE i \in 1..Len(Digits) : Digits[i] = piece) - 1
Str(n)       == Digits[n + 1]

PreTag(kind) ==
    CASE kind = "Alpha" -> "-alpha." [] kind = "Beta" -> "-beta."
      [] kind = "Rc" -> "-rc."

\* Display for ver::Filter
Filter_to_string(f) ==
    IF f.minor = None THEN <<Str(f.major)>>
    ELSE IF f.minor.kind = "Minor"
    THEN <<Str(f.major), ".", Str(f.minor.n)>>
    ELSE <<Str(f.major), ".", "0", PreTag(f.minor.kind), Str(f.minor.n)>>

\* FromStr for ver::Filter
Filter_parse(s) ==
    LET Parsed(f) == [ok |-> TRUE, filter |-> f] IN
    IF Len(s) = 1 /\ IsNum(s[1])
    THEN Parsed([major |-> Num(s[1]), minor |-> None])
    ELSE IF Len(s) = 3 /\ IsNum(s[1]) /\ s[2] = "." /\ IsNum(s[3])
    THEN Parsed([major |-> Num(s[1]),
                       minor |-> [kind |-> "Minor", n |-> Num(s[3])]])
    ELSE IF /\ Len(s) = 5 /\ IsNum(s[1]) /\ s[2] = "." /\ s[3] = "0"
            /\ s[4] \in {"-alpha.", "-beta.", "-rc."} /\ IsNum(s[5])
    THEN Parsed(
            [major |-> Num(s[1]),
             minor |-> [kind |-> CHOOSE k \in Prerelease : PreTag(k) = s[4],
                        n |-> Num(s[5])]])
    ELSE [ok |-> FALSE, error |-> "invalid version filter"]

Star        == <<"*">>
NightlyText == <<"nightly">>

\* the texts given as --version or found as a token
Texts ==
    {Star, NightlyText, <<"latest">>, <<"1", ".">>}
        \cup {Filter_to_string(f) : f \in Filter}

-----------------------------------------------------------------------------
(* Construction and token form of a Query (repository.rs).                 *)

QueryOk(q)  == [ok |-> TRUE, query |-> q]
QueryErr(e) == [ok |-> FALSE, error |-> e]
MkQuery(c, v) == [channel |-> c, version |-> v]

\* a mutant of Channel_from_filter: prereleases of any major are accepted
Channel_from_filter_any_major(f) ==
    ChannelOk("Stable")

\* a mutant of Channel_from_filter: a prerelease filter selects Nightly
Channel_from_filter_prerelease_nightly(f) ==
    IF f.minor = None THEN ChannelOk("Stable")
    ELSE IF f.minor.kind = "Minor" THEN ChannelOk("Stable")
    ELSE IF f.major = 1 THEN ChannelOk("Nightly")
    ELSE ChannelErr

\* Channel::from_filter
Channel_from_filter(f) ==
    IF f.minor = None THEN ChannelOk("Stable")
    ELSE IF f.minor.kind = "Minor" THEN ChannelOk("Stable")
    ELSE IF f.major = 1 THEN ChannelOk("Stable")
    ELSE ChannelErr

\* Query::nightly
Query_nightly == MkQuery("Nightly", None)

\* Query::from_options; `version` is None or the text of --version
Query_from_options(nightly, version) ==
    LET channel == IF nightly THEN "Nightly" ELSE "Stable" IN
    IF version = None THEN QueryOk(MkQuery(channel, None))
    ELSE LET p == Filter_parse(version.value) IN
         IF p.ok THEN QueryOk(MkQuery(channel, p.filter))
         ELSE QueryErr("Unexpected --version")

\* Query::from_option
Query_from_option(version) ==
    IF version = None THEN QueryOk(MkQuery("Stable", None))
    ELSE IF version.value = NightlyText
    THEN QueryOk(MkQuery("Nightly", None))
    ELSE LET p == Filter_parse(version.value) IN
         IF ~p.ok THEN QueryErr("Unexpected --version")
         ELSE LET c == Channel_from_filter(p.filter) IN
              IF c.ok THEN QueryOk(MkQuery(c.channel, p.filter))
              ELSE QueryErr(c.error)

\* Query::from_filter
Query_from_filter(f) ==
    IF f.minor = None THEN QueryOk(MkQuery("Stable", f))
    ELSE IF f.minor.kind \in Prerelease /\ f.major = 1
    THEN QueryOk(MkQuery("Stable", f))
    ELSE IF f.minor.kind \in Prerelease
    THEN QueryErr("prerelease channel is no supported yet")
    ELSE QueryOk(MkQuery("Stable", f))

\* Query::from_version
Query_from_version(v) ==
    IF v.minor.kind = "Dev" THEN QueryOk(Query_nightly)
    ELSE IF v.minor.kind \in Prerelease /\ v.major = 1
    THEN QueryOk(MkQuery("Stable", [major |-> v.major, minor |-> v.minor]))
    ELSE IF v.minor.kind = "Minor"
    THEN QueryOk(MkQuery("Stable", [major |-> v.major, minor |-> v.minor]))
    ELSE QueryErr("pre-release channel is not supported yet")

\* Query::as_config_value
Query_as_config_value(q) ==
    IF q.channel = "Nightly" THEN NightlyText
    ELSE IF q.version # None THEN Filter_to_string(q.version)
    ELSE Star

\* Deserialize for Query
Query_deserialize(s) ==
    IF s = Star THEN QueryOk(MkQuery("Stable", None))
    ELSE IF s = NightlyText THEN QueryOk(MkQuery("Nightly", None))
    ELSE LET p == Filter_parse(s) IN
         IF ~p.ok THEN QueryErr(p.error)
         ELSE LET c == Channel_from_filter(p.filter) IN
              IF c.ok THEN QueryOk(MkQuery(c.channel, p.filter))
              ELSE QueryErr(c.error)

-----------------------------------------------------------------------------
(* Package selection (repository.rs).  A PackageInfo is modelled by its    *)
(* version; the candidates are what get_server_packages(query.channel)     *)
(* returned: an error, or a list of PackageInfo in index order.            *)

PackageInfo == [version : Build]

RECURSIVE SeqsUpTo(_, _)
SeqsUpTo(S, n) ==
    IF n = 0 THEN {<<>>}
    ELSE LET shorter == SeqsUpTo(S, n - 1) IN
         shorter \cup {Append(q, x) : q \in shorter, x \in S}

FetchFailed == [ok |-> FALSE, error |-> "HttpFailure"]
Packages(l) == [ok |-> TRUE, packages |-> l]
Candidates ==
    {FetchFailed} \cup {Packages(l) : l \in SeqsUpTo(PackageInfo, MaxPackages)}

\* the closure |pkg| filter.map(|q| q.matches(&pkg.version)).unwrap_or(true)
keeps(filter, pkg) ==
    IF filter # None THEN Filter_matches(filter, pkg.version) ELSE TRUE

\* Iterator::filter with that closure
RECURSIVE filter_packages(_, _)
filter_packages(l, filter) ==
    IF l = <<>> THEN <<>>
    ELSE IF keeps(filter, Head(l))
         THEN <<Head(l)>> \o filter_packages(Tail(l), filter)
         ELSE filter_packages(Tail(l), filter)

\* Iterator::max_by_key with the key pkg.version.specific(): the last of
\* the elements with the greatest key, None for an empty iterator
RECURSIVE max_by_key(_)
max_by_key(l) ==
    IF l = <<>> THEN None
    ELSE LET rest == max_by_key(Tail(l)) IN
         IF rest = None THEN Some(Head(l))
         ELSE IF SpecificLeq(specific(Head(l).version),
                             specific(rest.value.version))
              THEN rest
              ELSE Some(Head(l))

\* get_server_package, given the outcome of get_server_packages
get_server_package(q, got) ==
    IF ~got.ok THEN [ok |-> FALSE, error |-> got.error]
    ELSE LET filter == q.version IN
         [ok |-> TRUE,
          pkg |-> max_by_key(filter_packages(got.packages, filter))]

-----------------------------------------------------------------------------
(* The package index (repository.rs).  A string of an index entry is a     *)
(* sequence of one-byte characters; a version text is a sequence of pieces *)
(* as above.                                                               *)

MaxRefs    == 2     \* install references of an index entry
MaxEntries == 3     \* entries of an index
MaxStr     == 3     \* characters of a short unrecognized hash string

Rep(c, n) == [i \in 1..n |-> c]

HexDigits ==
    {"0", "1", "2", "3", "4", "5", "6", "7", "8", "9",
     "a", "b", "c", "d", "e", "f", "A", "B", "C", "D", "E", "F"}

\* hex::decode(val), of which only the number of decoded bytes is kept
hex_decode(val) ==
    IF Len(val) % 2 # 0 THEN [ok |-> FALSE, error |-> "OddLength"]
    ELSE IF \E i \in 1..Len(val) : val[i] \notin HexDigits
    THEN [ok |-> FALSE, error |-> "InvalidHexCharacter"]
    ELSE [ok |-> TRUE, len |-> Len(val) \div 2]

\* valid_hash
valid_hash(val) ==
    /\ Len(val) = 128
    /\ LET x == hex_decode(val) IN IF x.ok THEN x.len = 64 ELSE FALSE

Blake2b(val) == [kind |-> "Blake2b", val |-> val]
Unknown(val) == [kind |-> "Unknown", val |-> val]

Blake2bPrefix == <<"b", "l", "a", "k", "e", "2", "b", ":">>

\* str::strip_prefix
strip_prefix(s, prefix) ==
    IF Len(s) >= Len(prefix) /\ SubSeq(s, 1, Len(prefix)) = prefix
    THEN Some(SubSeq(s, Len(prefix) + 1, Len(s)))
    ELSE None

\* Deserialize for PackageHash
PackageHash_deserialize(s) ==
    LET hash == strip_prefix(s, Blake2bPrefix) IN
    IF hash # None
    THEN IF Len(hash.value) # 128
         THEN [ok |-> FALSE, error |-> "invalid blake2b hash length"]
         ELSE [ok |-> TRUE, hash |-> Blake2b(hash.value)]
    ELSE [ok |-> TRUE, hash |-> Unknown(s)]

\* a mutant of PackageHash_to_string: the prefix is not written
PackageHash_to_string_bare(h) ==
    h.val

\* Display for PackageHash (Serialize writes the same string)
PackageHash_to_string(h) ==
    IF h.kind = "Blake2b" THEN Blake2bPrefix \o h.val ELSE h.val

\* PackageHash::short: the slice &val[start..end] (offsets from 0), or a
\* panic when start > end or end > val.len()
PackageHash_short(h) ==
    LET val   == h.val
        colon == {i \in 1..Len(val) : val[i] = ":"}
        find  == IF colon = {} THEN None
                 ELSE Some((CHOOSE i \in colon : \A j \in colon : i <= j) - 1)
        start == IF h.kind = "Blake2b" THEN 0
                 ELSE IF find # None THEN find.value
                 ELSE IF Len(val) >= 7 THEN Len(val) - 7 ELSE 0
        end   == IF h.kind = "Blake2b" THEN 7
                 ELSE IF 7 <= Len(val) - start THEN 7 ELSE Len(val) - start
    IN  IF start <= end /\ end <= Len(val)
        THEN [ok |-> TRUE, value |-> SubSeq(val, start + 1, end),
              start |-> start, end |-> end]
        ELSE [ok |-> FALSE, panic |-> "slice index", start |-> start,
              end |-> end]

\* FromStr for ver::Build
Build_parse(s) ==
    LET ParsedB(b) == [ok |-> TRUE, build |-> b] IN
    IF Len(s) = 3 /\ IsNum(s[1]) /\ s[2] = "." /\ IsNum(s[3])
    THEN ParsedB([specific |->
            [major |-> Num(s[1]),
             minor |-> [kind |-> "Minor", n |-> Num(s[3])]]])
    ELSE IF /\ Len(s) = 5 /\ IsNum(s[1]) /\ s[2] = "." /\ s[3] = "0"
            /\ s[4] \in {"-alpha.", "-beta.", "-rc.", "-dev."}
            /\ IsNum(s[5])
    THEN ParsedB([specific |->
            [major |-> Num(s[1]),
             minor |-> [kind |-> IF s[4] = "-dev." THEN "Dev"
                                 ELSE CHOOSE k \in Prerelease :
                                        PreTag(k) = s[4],
                        n |-> Num(s[5])]]])
    ELSE [ok |-> FALSE, error |-> "invalid version"]

InstallRef(path, kind, encoding, size, blake2b) ==
    [path |-> path, kind |-> kind, encoding |-> encoding,
     verification |-> [size |-> size, blake2b |-> blake2b]]
PackageData(basename, version, installrefs) ==
    [basename |-> basename, version |-> version,
     installrefs |-> installrefs]

\* a mutant of qualifies: the hash of a reference is not validated
qualifies_any_hash(r) ==
    /\ r.kind = "application/x-tar"
    /\ r.encoding = Some("zstd")
    /\ r.verification.blake2b # None

\* the closure of the filter over pkg.installrefs
qualifies(r) ==
    /\ r.kind = "application/x-tar"
    /\ r.encoding = Some("zstd")
    /\ IF r.verification.blake2b # None
       THEN valid_hash(r.verification.blake2b.value)
       ELSE FALSE

\* pkg.installrefs.iter().filter(..).next()
RECURSIVE first_ref(_)
first_ref(refs) ==
    IF refs = <<>> THEN None
    ELSE IF qualifies(Head(refs)) THEN Some(Head(refs))
    ELSE first_ref(Tail(refs))

\* filter_package (_filter_package and the log line of its caller)
filter_package(pkg_root, pkg) ==
    LET iref == first_ref(pkg.installrefs) IN
    IF iref = None THEN None
    ELSE LET version == Build_parse(pkg.version)
             joined  == Url_join(pkg_root, iref.value.path)
             blake2b == iref.value.verification.blake2b
         IN  IF ~version.ok THEN None
             ELSE IF ~joined.ok THEN None
             ELSE IF blake2b = None THEN None
             ELSE Some([version |-> version.build,
                        url |-> joined.url,
                        hash |-> Blake2b(blake2b.value),
                        kind |-> "TarZst",
                        size |-> iref.value.verification.size])

\* the default of EDGEDB_PKG_ROOT, "https://packages.edgedb.com"
PkgRoot == Url("packages.edgedb.com", <<>>)

\* "/archive/.jsonindexes/{plat}.json" and its nightly form
IndexUrl(channel) ==
    Url_join(PkgRoot,
             [kind |-> "abspath",
              path |-> IF channel = "Stable"
                       THEN <<"archive", ".jsonindexes", "plat.json">>
                       ELSE <<"archive", ".jsonindexes",
                              "plat.nightly.json">>]).url

Unreadable      == [kind |-> "unreadable"]
Malformed       == [kind |-> "malformed"]
RepositoryData(l) == [kind |-> "json", packages |-> l]

\* get_json, given the outcome of get_header and the body of the response
get_json(fetched, body_bytes) ==
    IF fetched.kind = "Err" THEN fetched
    ELSE IF body_bytes = Unreadable THEN Err("HttpError")
    ELSE IF body_bytes = Malformed THEN Err("invalid JSON")
    ELSE Ok(body_bytes)

\* a mutant of collect_packages: the basename of an entry is not tested
RECURSIVE collect_packages_any_basename(_, _)
collect_packages_any_basename(pkg_root, pkgs) ==
    IF pkgs = <<>> THEN <<>>
    ELSE LET rest == collect_packages_any_basename(pkg_root, Tail(pkgs))
             info == filter_package(pkg_root, Head(pkgs))
         IN  IF info = None THEN rest ELSE <<info.value>> \o rest

\* data.packages.iter().filter(..).filter_map(..).collect()
RECURSIVE collect_packages(_, _)
collect_packages(pkg_root, pkgs) ==
    IF pkgs = <<>> THEN <<>>
    ELSE LET rest == collect_packages(pkg_root, Tail(pkgs))
             info == filter_package(pkg_root, Head(pkgs))
         IN  IF Head(pkgs).basename # "edgedb-server" THEN rest
             ELSE IF info = None THEN rest
             ELSE <<info.value>> \o rest

\* a mutant of get_server_packages: NotFound is returned like any error
get_server_packages_no_exception(got) ==
    IF got.kind = "Ok"
    THEN Packages(collect_packages(PkgRoot, got.res.packages))
    ELSE [ok |-> FALSE, error |-> got.error]

\* get_server_packages, given the outcome of get_json(&url)
get_server_packages(got) ==
    IF got.kind = "Ok"
    THEN Packages(collect_packages(PkgRoot, got.res.packages))
    ELSE IF got.error = "NotFound"
    THEN Packages(collect_packages(PkgRoot, <<>>))
    ELSE [ok |-> FALSE, error |-> got.error]

\* ---- the index entries the operations are applied to
\* blake2b strings: two of 128 hex characters, one of 130 characters, one
\* of 127, one of 128 characters that are not hexadecimal
HashText(name) ==
    CASE name = "A" -> Rep("a", 128)
      [] name = "B" -> Rep("0", 128)
      [] name = "long" -> Rep("a", 130)
      [] name = "short" -> Rep("a", 127)
      [] name = "nohex" -> Rep("z", 128)

\* install references: two that qualify, and one failing in each way
Ref(name) ==
    LET a   == [kind |-> "abspath", path |-> <<"archive", "a.tar.zst">>]
        b   == [kind |-> "abspath", path |-> <<"archive", "b.tar.zst">>]
        tar == "application/x-tar"
        ha  == Some(HashText("A"))
    IN  CASE name = "A" -> InstallRef(a, tar, Some("zstd"), 1, ha)
          [] name = "B" ->
                InstallRef(b, tar, Some("zstd"), 2, Some(HashText("B")))
          [] name = "deb" ->
                InstallRef(a, "application/x-deb", Some("zstd"), 3, ha)
          [] name = "gzip" -> InstallRef(a, tar, Some("gzip"), 4, ha)
          [] name = "plain" -> InstallRef(a, tar, None, 5, ha)
          [] name = "long" ->
                InstallRef(a, tar, Some("zstd"), 6, Some(HashText("long")))
          [] name = "nohex" ->
                InstallRef(a, tar, Some("zstd"), 7, Some(HashText("nohex")))
          [] name = "nohash" -> InstallRef(a, tar, Some("zstd"), 8, None)
          [] name = "badpath" ->
                InstallRef([kind |-> "badrel"], tar, Some("zstd"), 9, ha)

Entries ==
    { PackageData("edgedb-server", <<"1", ".", "2">>, <<Ref("A")>>),
      PackageData("edgedb-server", <<"2", ".", "0", "-rc.", "1">>,
                  <<Ref("deb"), Ref("B")>>),
      PackageData("edgedb-cli", <<"1", ".", "1">>, <<Ref("A")>>),
      PackageData("edgedb-server", <<"1", ".", "1">>, <<Ref("gzip")>>),
      PackageData("edgedb-server", <<"1", ".", "1">>, <<Ref("long")>>),
      PackageData("edgedb-server", <<"latest">>, <<Ref("A")>>),
      PackageData("edgedb-server", <<"1", ".", "1">>, <<Ref("badpath")>>) }

-----------------------------------------------------------------------------
(* download (repository.rs).  The body of the response is a sequence of    *)
(* bytes that the stream hands out in reads of at most BufLen bytes.       *)

MaxBody == 3        \* bytes of a response body
BufLen  == 2        \* bytes of `buf` (16384 in the program)

Absent    == [exists |-> FALSE]
FileOf(d) == [exists |-> TRUE, data |-> d]

\* a mutant of File_create: an existing file is opened without truncation
File_create_keeping(f) ==
    IF f.exists THEN f ELSE FileOf(<<>>)

\* fs::File::create(dest): the file is created, or truncated if it exists
File_create(f) == FileOf(<<>>)

\* the file after `data` is written at the end of it
File_write(f, data) == FileOf(f.data \o data)

\* blake2b_simd::State: new(), update(data), finalize()
State_update(h, data) == [absorbed |-> h.absorbed \o data]
Blake2b512(bytes) == [blake2b512 |-> bytes]

\* a mutant of Try: the error of a failed operation is dropped
Try_ignoring(d, r, next) ==
    [d EXCEPT !.pc = next]

\* the `?` after an operation of download that gave r: the call goes on at
\* `next`, or returns the error
Try(d, r, next) ==
    IF r.ok THEN [d EXCEPT !.pc = next]
    ELSE [d EXCEPT !.pc = "done", !.out = Err(r.error)]

\* &buf[..bytes]
slice(buf, bytes) == SubSeq(buf, 1, bytes)

\* buf after a read that put `data` at its start
filled(buf, data) == data \o SubSeq(buf, Len(data) + 1, Len(buf))

Idle == [kind |-> "idle"]

\* no get_header call is in progress
FetchIdle ==
    /\ original_url = HostAB /\ url = HostAB /\ reqUrl = HostAB
    /\ attempt = 0 /\ retry = 0 /\ requests = 0
    /\ pc = "idle" /\ res = NoResponse /\ result = Pending
    /\ sleeps = <<>> /\ nRetryable = 0 /\ nRedirect = 0
    /\ retried = {} /\ lastRedir = [kind |-> "none"]

QueryIdle ==
    /\ op = "idle" /\ query = Idle /\ ver = Idle
    /\ candidates = Idle /\ out = Idle
    /\ arg = Idle /\ token = Idle /\ back = Idle /\ body = Idle
    /\ dl = Idle /\ file = Idle
    /\ calls = Idle /\ dests = Idle /\ wait = Idle

\* ---- the resilient fetcher: one call of get_header ----
Init == InitFetch /\ QueryIdle
Next ==
    \/ Fetch
    \/ Success
    \/ Redirect
    \/ Backoff
    \/ PageNotFound
    \/ Failure
    \/ Transport
Spec == Init /\ [][Next]_vars

\* ---- the version/channel model: one operation on a query and a version
InitVersion ==
    /\ FetchIdle
    /\ op = "idle" /\ candidates = Idle /\ out = Idle
    /\ arg = Idle /\ token = Idle /\ back = Idle /\ body = Idle
    /\ dl = Idle /\ file = Idle
    /\ calls = Idle /\ dests = Idle /\ wait = Idle
    /\ query \in Query
    /\ ver \in Build

CallFromVersion ==
    /\ op = "idle"
    /\ op' = "from_version"
    /\ out' = Channel_from_version(specific(ver))
    /\ UNCHANGED <<query, ver, candidates, arg, token, back, body, dl, file,
                   calls, dests, wait, fetchVars>>

CallMatches ==
    /\ op = "idle"
    /\ op' = "matches"
    /\ out' = Query_matches(query, ver)
    /\ UNCHANGED <<query, ver, candidates, arg, token, back, body, dl, file,
                   calls, dests, wait, fetchVars>>

NextVersion ==
    \/ CallFromVersion
    \/ CallMatches
SpecVersion == InitVersion /\ [][NextVersion]_vars

\* ---- package selection: one call of get_server_package ----
InitSelect ==
    /\ FetchIdle
    /\ op = "idle" /\ ver = Idle /\ out = Idle
    /\ arg = Idle /\ token = Idle /\ back = Idle /\ body = Idle
    /\ dl = Idle /\ file = Idle
    /\ calls = Idle /\ dests = Idle /\ wait = Idle
    /\ query \in Query
    /\ candidates \in Candidates

CallGetServerPackage ==
    /\ op = "idle"
    /\ op' = "get_server_package"
    /\ out' = get_server_package(query, candidates)
    /\ UNCHANGED <<query, ver, candidates, arg, token, back, body, dl, file,
                   calls, dests, wait, fetchVars>>

NextSelect ==
    \/ CallGetServerPackage
SpecSelect == InitSelect /\ [][NextSelect]_vars

\* ---- building a Query, writing it as a token and reading the token back
InitBuild ==
    /\ FetchIdle
    /\ op = "idle" /\ query = Idle /\ ver = Idle /\ candidates = Idle
    /\ out = Idle /\ token = Idle /\ back = Idle /\ body = Idle
    /\ dl = Idle /\ file = Idle
    /\ calls = Idle /\ dests = Idle /\ wait = Idle
    /\ LET OptTexts == {None} \cup {Some(t) : t \in Texts} IN
       arg \in {[kind |-> "nightly"]}
            \cup [kind : {"options"}, nightly : BOOLEAN, version : OptTexts]
            \cup [kind : {"option"}, version : OptTexts]
            \cup [kind : {"filter"}, filter : Filter]
            \cup [kind : {"specific"}, specific : Specific]
            \cup [kind : {"token"}, text : Texts]

\* one of the operations is applied to arg and gives r
Built(name, r) ==
    /\ op = "idle"
    /\ op' = name
    /\ out' = r
    /\ UNCHANGED <<query, ver, candidates, arg, token, back, body, dl, file,
                   calls, dests, wait, fetchVars>>

NewNightly     == arg.kind = "nightly" /\ Built("nightly", QueryOk(Query_nightly))
NewFromOptions ==
    /\ arg.kind = "options"
    /\ Built("from_options", Query_from_options(arg.nightly, arg.version))
NewFromOption ==
    /\ arg.kind = "option"
    /\ Built("from_option", Query_from_option(arg.version))
NewFromFilter ==
    /\ arg.kind = "filter"
    /\ Built("from_filter", Query_from_filter(arg.filter))
NewFromVersion ==
    /\ arg.kind = "specific"
    /\ Built("from_version", Query_from_version(arg.specific))
NewDeserialized ==
    /\ arg.kind = "token"
    /\ Built("deserialize", Query_deserialize(arg.text))
CallChannelFromFilter ==
    /\ arg.kind = "filter"
    /\ Built("channel_from_filter", Channel_from_filter(arg.filter))

Constructors == {"nightly", "from_options", "from_option", "from_filter",
                 "from_version", "deserialize"}

\* query.as_config_value() on the Query that was built
CallAsConfigValue ==
    /\ op \in Constructors /\ out.ok
    /\ token = Idle
    /\ token' = Some(Query_as_config_value(out.query))
    /\ UNCHANGED <<op, query, ver, candidates, out, arg, back, body,
                   dl, file, calls, dests, wait, fetchVars>>

\* the token is deserialized
ReadBack ==
    /\ token # Idle /\ back = Idle
    /\ back' = Query_deserialize(token.value)
    /\ UNCHANGED <<op, query, ver, candidates, out, arg, token, body,
                   dl, file, calls, dests, wait, fetchVars>>

NextBuild ==
    \/ NewNightly
    \/ NewFromOptions
    \/ NewFromOption
    \/ NewFromFilter
    \/ NewFromVersion
    \/ NewDeserialized
    \/ CallChannelFromFilter
    \/ CallAsConfigValue
    \/ ReadBack
SpecBuild == InitBuild /\ [][NextBuild]_vars

\* ---- one index entry through filter_package, one text through the
\* ---- deserializer of PackageHash
InitEntry ==
    /\ FetchIdle
    /\ op = "idle" /\ query = Idle /\ ver = Idle /\ candidates = Idle
    /\ out = Idle /\ token = Idle /\ back = Idle /\ body = Idle
    /\ dl = Idle /\ file = Idle
    /\ calls = Idle /\ dests = Idle /\ wait = Idle
    /\ arg \in
        {[kind |-> "entry", pkg |-> PackageData("edgedb-server", v, refs)] :
            v \in {<<"1", ".", "2">>, <<"latest">>},
            refs \in SeqsUpTo({Ref(n) : n \in {"A", "B", "deb", "gzip",
                                                "plain", "long", "nohex",
                                                "nohash", "badpath"}},
                              MaxRefs)}
        \cup {[kind |-> "hash", text |-> t] :
                t \in {Blake2bPrefix \o HashText("A"),
                       Blake2bPrefix \o HashText("long"),
                       Blake2bPrefix \o HashText("short"),
                       Blake2bPrefix \o HashText("nohex"),
                       Blake2bPrefix, HashText("A"),
                       <<"s", "h", "a", ":", "1">>, <<>>}}
        \cup {[kind |-> "value", hash |-> h] :
                h \in {Blake2b(HashText("A")), Blake2b(HashText("nohex")),
                       Unknown(Rep("a", 40)),
                       Unknown(Blake2bPrefix \o <<"a">>),
                       Unknown(Blake2bPrefix \o HashText("A"))}
                      \cup {Unknown(t) : t \in SeqsUpTo({"a", ":"}, MaxStr)}}

CallFilterPackage ==
    /\ arg.kind = "entry"
    /\ Built("filter_package", filter_package(PkgRoot, arg.pkg))
DeserializeHash ==
    /\ arg.kind = "hash"
    /\ Built("deserialize_hash", PackageHash_deserialize(arg.text))

\* hash.to_string(), and the string deserialized again
HashRoundTrip ==
    /\ arg.kind = "value" /\ op = "idle"
    /\ op' = "hash_round_trip"
    /\ token' = Some(PackageHash_to_string(arg.hash))
    /\ back' = PackageHash_deserialize(PackageHash_to_string(arg.hash))
    /\ UNCHANGED <<query, ver, candidates, out, arg, body, dl, file,
                   calls, dests, wait, fetchVars>>
CallShort ==
    /\ arg.kind = "value"
    /\ Built("short", PackageHash_short(arg.hash))

NextEntry ==
    \/ CallFilterPackage
    \/ DeserializeHash
    \/ HashRoundTrip
    \/ CallShort
SpecEntry == InitEntry /\ [][NextEntry]_vars

\* ---- get_server_packages on an index document, the outcome of the fetch
\* ---- being given
InitIndex ==
    /\ FetchIdle
    /\ op = "idle" /\ query = Idle /\ ver = Idle /\ candidates = Idle
    /\ out = Idle /\ token = Idle /\ back = Idle
    /\ dl = Idle /\ file = Idle
    /\ calls = Idle /\ dests = Idle /\ wait = Idle
    /\ arg \in [kind : {"index"},
                 fetched : {Ok(Response(200, NoLocation)), Err("NotFound"),
                            Err("HttpFailure")}]
    /\ body \in {Unreadable, Malformed}
                \cup {RepositoryData(l) : l \in SeqsUpTo(Entries, MaxEntries)}

CallGetServerPackages ==
    /\ arg.kind = "index"
    /\ Built("get_server_packages",
             get_server_packages(get_json(arg.fetched, body)))

NextIndex ==
    \/ CallGetServerPackages
SpecIndex == InitIndex /\ [][NextIndex]_vars

\* ---- get_server_packages(channel): get_header on the index URL, then the
\* ---- body is read and parsed and the packages are collected
InitIndexFetch ==
    /\ op = "idle" /\ query = Idle /\ ver = Idle /\ candidates = Idle
    /\ out = Idle /\ token = Idle /\ back = Idle /\ body = Idle
    /\ dl = Idle /\ file = Idle
    /\ calls = Idle /\ dests = Idle /\ wait = Idle
    /\ arg \in [kind : {"channel"}, channel : Channels]
    /\ original_url = IndexUrl(arg.channel)
    /\ url = original_url /\ reqUrl = original_url
    /\ attempt = 0 /\ retry = 0 /\ requests = 0
    /\ pc = "fetch" /\ res = NoResponse /\ result = Pending
    /\ sleeps = <<>> /\ nRetryable = 0 /\ nRedirect = 0
    /\ retried = {} /\ lastRedir = [kind |-> "none"]

\* the rest of get_server_packages once get_header has returned
Collect ==
    /\ pc = "done" /\ op = "idle"
    /\ \E b \in {Unreadable, Malformed, RepositoryData(<<>>),
                 RepositoryData(<<PackageData("edgedb-server",
                                              <<"1", ".", "2">>,
                                              <<Ref("A")>>)>>)} :
        /\ body' = IF result.kind = "Ok" THEN b ELSE body
        /\ out' = get_server_packages(get_json(result, b))
    /\ op' = "get_server_packages"
    /\ UNCHANGED <<query, ver, candidates, arg, token, back, dl, file,
                   calls, dests, wait, fetchVars>>

NextIndexFetch ==
    \/ Fetch
    \/ Success
    \/ Redirect
    \/ Backoff
    \/ PageNotFound
    \/ Failure
    \/ Transport
    \/ Collect
SpecIndexFetch == InitIndexFetch /\ [][NextIndexFetch]_vars

\* ---- one call of download(dest, url)
InitDownload ==
    /\ FetchIdle
    /\ op = "idle" /\ query = Idle /\ ver = Idle /\ candidates = Idle
    /\ out = Idle /\ arg = Idle /\ token = Idle /\ back = Idle
    /\ body = Idle
    /\ calls = Idle /\ dests = Idle /\ wait = Idle
    /\ file \in {Absent, FileOf(<<>>), FileOf(Rep(9, MaxBody + 1))}
    /\ dl = [pc |-> "get_header", out |-> Pending,
             stream |-> <<>>, sent |-> <<>>, old |-> file,
             buf |-> Rep(0, BufLen), bytes |-> 0,
             hasher |-> [absorbed |-> <<>>], bar |-> 0,
             fetches |-> 0, reads |-> 0, writes |-> 0, updates |-> 0,
             failed |-> "none"]

DlFrame == UNCHANGED <<op, query, ver, candidates, out, arg, token, back,
                       body, calls, dests, wait, fetchVars>>

\* get_header(url).await?.take_body(), the fetch having succeeded
GetHeader ==
    /\ dl.pc = "get_header"
    /\ \E b \in SeqsUpTo({0, 1}, MaxBody) :
        dl' = [dl EXCEPT !.pc = "create", !.stream = b, !.sent = b,
                         !.fetches = @ + 1]
    /\ UNCHANGED file
    /\ DlFrame

\* a mutant of GetHeaderFails: the destination was opened before the fetch
GetHeaderFails_after_create ==
    /\ dl.pc = "get_header"
    /\ \E r \in {Err("NotFound"), Err("HttpFailure")} :
        dl' = [dl EXCEPT !.pc = "done", !.out = r, !.fetches = @ + 1]
    /\ file' = File_create(file)
    /\ DlFrame

\* get_header(url).await?, the fetch having failed
GetHeaderFails ==
    /\ dl.pc = "get_header"
    /\ \E r \in {Err("NotFound"), Err("HttpFailure"), Err("HttpError"),
                 Err("too many attempts"),
                 Err("unexpected redirect kind")} :
        dl' = [dl EXCEPT !.pc = "done", !.out = r, !.fetches = @ + 1]
    /\ UNCHANGED file
    /\ DlFrame

\* fs::File::create(dest).await?, then the progress bar, the hasher and buf
Create ==
    /\ dl.pc = "create"
    /\ file' = File_create(file)
    /\ dl' = Try([dl EXCEPT !.hasher = [absorbed |-> <<>>], !.bar = 0,
                            !.buf = Rep(0, BufLen)],
                 [ok |-> TRUE], "read")
    /\ DlFrame

CreateFails ==
    /\ dl.pc = "create"
    /\ dl' = Try(dl, [ok |-> FALSE, error |-> "writing dest"], "read")
    /\ UNCHANGED file
    /\ DlFrame

\* body.read(&mut buf).await? gives 0 at the end of the body and otherwise
\* between 1 and BufLen of the bytes that remain
Read ==
    /\ dl.pc = "read"
    /\ \E n \in 0..BufLen :
        /\ n <= Len(dl.stream)
        /\ n = 0 <=> dl.stream = <<>>
        /\ dl' = Try([dl EXCEPT
                        !.buf = filled(@, SubSeq(dl.stream, 1, n)),
                        !.bytes = n,
                        !.stream = SubSeq(@, n + 1, Len(@)),
                        !.reads = @ + 1],
                     [ok |-> TRUE], IF n = 0 THEN "finish" ELSE "write")
    /\ UNCHANGED file
    /\ DlFrame

ReadFails ==
    /\ dl.pc = "read"
    /\ dl' = Try([dl EXCEPT !.reads = @ + 1, !.failed = "read"],
                 [ok |-> FALSE, error |-> "read"], "write")
    /\ UNCHANGED file
    /\ DlFrame

\* out.write_all(&buf[..bytes]).await?
Write ==
    /\ dl.pc = "write"
    /\ file' = File_write(file, slice(dl.buf, dl.bytes))
    /\ dl' = Try([dl EXCEPT !.writes = @ + 1], [ok |-> TRUE], "update")
    /\ DlFrame

\* write_all fails, part of the chunk having been written
WriteFails ==
    /\ dl.pc = "write"
    /\ \E k \in 0..(dl.bytes - 1) :
        file' = File_write(file, slice(dl.buf, k))
    /\ dl' = Try([dl EXCEPT !.writes = @ + 1, !.failed = "write"],
                 [ok |-> FALSE, error |-> "write"], "update")
    /\ DlFrame

\* hasher.update(&buf[..bytes]); bar.inc(bytes as u64)
Update ==
    /\ dl.pc = "update"
    /\ dl' = [dl EXCEPT
                !.hasher = State_update(@, slice(dl.buf, dl.bytes)),
                !.bar = @ + dl.bytes,
                !.updates = @ + 1,
                !.pc = "read"]
    /\ UNCHANGED file
    /\ DlFrame

\* bar.finish(); Ok(hasher.finalize())
Finish ==
    /\ dl.pc = "finish"
    /\ dl' = [dl EXCEPT !.pc = "done",
                        !.out = Ok(Blake2b512(dl.hasher.absorbed))]
    /\ UNCHANGED file
    /\ DlFrame

NextDownload ==
    \/ GetHeader
    \/ GetHeaderFails
    \/ Create
    \/ CreateFails
    \/ Read
    \/ ReadFails
    \/ Write
    \/ WriteFails
    \/ Update
    \/ Finish
SpecDownload == InitDownload /\ [][NextDownload]_vars

\* ---- one call of wait_instance_create (cloud/ops.rs).  Time is counted
\* ---- in polling intervals of one second from the start of the call.
WaitTime == 3       \* INSTANCE_CREATION_WAIT_TIME (300 seconds in the program)
MaxPolls == 4       \* the polls followed in one call

InitWait ==
    /\ FetchIdle
    /\ op = "idle" /\ query = Idle /\ ver = Idle /\ candidates = Idle
    /\ out = Idle /\ arg = Idle /\ token = Idle /\ back = Idle
    /\ body = Idle /\ dl = Idle /\ file = Idle
    /\ calls = Idle /\ dests = Idle
    /\ \E i \in [dsn : {"", "edgedb://i"},
                 status : {"creating", "available", "failed"}] :
        wait = [pc |-> "loop", instance |-> i, now |-> 0, out |-> Pending,
                intime |-> TRUE, polls |-> 0, slept |-> FALSE]

\* a mutant of LoopHead: the call sleeps before every poll
LoopHead_always_sleeping ==
    /\ wait.pc = "loop"
    /\ wait' =
        IF wait.now < WaitTime
        THEN IF wait.instance.dsn # ""
             THEN [wait EXCEPT !.pc = "done", !.out = Ok(wait.instance)]
             ELSE IF wait.instance.status \notin {"available", "creating"}
             THEN [wait EXCEPT !.pc = "done",
                               !.out = Err("Failed to create")]
             ELSE [wait EXCEPT !.pc = "sleep"]
        ELSE [wait EXCEPT !.pc = "done", !.intime = FALSE,
                          !.out = IF wait.instance.dsn # ""
                                  THEN Ok(wait.instance)
                                  ELSE Err("Timed out.")]
    /\ UNCHANGED <<op, query, ver, candidates, out, arg, token, back,
                   body, dl, file, calls, dests, fetchVars>>

\* the test of the while loop and the three ifs of its body, or the end of
\* the function when the deadline has passed
LoopHead ==
    /\ wait.pc = "loop"
    /\ wait' =
        IF wait.now < WaitTime
        THEN IF wait.instance.dsn # ""
             THEN [wait EXCEPT !.pc = "done", !.out = Ok(wait.instance)]
             ELSE IF wait.instance.status \notin {"available", "creating"}
             THEN [wait EXCEPT !.pc = "done",
                               !.out = Err("Failed to create")]
             ELSE IF wait.instance.status = "creating"
             THEN [wait EXCEPT !.pc = "sleep"]
             ELSE [wait EXCEPT !.pc = "poll", !.slept = FALSE]
        ELSE [wait EXCEPT !.pc = "done", !.intime = FALSE,
                          !.out = IF wait.instance.dsn # ""
                                  THEN Ok(wait.instance)
                                  ELSE Err("Timed out.")]
    /\ UNCHANGED <<op, query, ver, candidates, out, arg, token, back,
                   body, dl, file, calls, dests, fetchVars>>

\* task::sleep(INSTANCE_CREATION_POLLING_INTERVAL).await
Sleep ==
    /\ wait.pc = "sleep"
    /\ wait' = [wait EXCEPT !.pc = "poll", !.slept = TRUE,
                            !.now = IF @ <= WaitTime THEN @ + 1 ELSE @]
    /\ UNCHANGED <<op, query, ver, candidates, out, arg, token, back,
                   body, dl, file, calls, dests, fetchVars>>

\* instance = client.get(&url).await?: the request fails, or gives the
\* instance as it is now, after some time
Poll ==
    /\ wait.pc = "poll"
    /\ wait.polls < MaxPolls
    /\ \/ wait' = [wait EXCEPT !.pc = "done", !.polls = @ + 1,
                               !.out = Err("request failed")]
       \/ \E i \in [dsn : {"", "edgedb://i", "edgedb://j"},
                    status : {"creating", "available", "failed"}],
             d \in 0..1 :
            wait' = [wait EXCEPT
                        !.pc = "loop", !.instance = i, !.polls = @ + 1,
                        !.now = IF @ + d <= WaitTime THEN @ + d
                                ELSE WaitTime + 1]
    /\ UNCHANGED <<op, query, ver, candidates, out, arg, token, back,
                   body, dl, file, calls, dests, fetchVars>>

NextWait ==
    \/ LoopHead
    \/ Sleep
    \/ Poll
SpecWait == InitWait /\ [][NextWait]_vars

\* ---- two calls of download for one artifact, each with its own
\* ---- destination, their steps interleaved.  A step is what a call does
\* ---- from one await to the next.  calls[p] holds the locals of call p;
\* ---- dests[p] holds its destination file and the backoff sleeps of its
\* ---- get_header call so far, with the redirects it followed.
InitTwo ==
    /\ FetchIdle
    /\ op = "idle" /\ query = Idle /\ ver = Idle /\ candidates = Idle
    /\ out = Idle /\ arg = Idle /\ token = Idle /\ back = Idle
    /\ dl = Idle /\ file = Idle /\ wait = Idle
    /\ body \in {Some(b) : b \in SeqsUpTo({0, 1}, MaxBody)}
    /\ calls = [p \in 1..2 |->
                  [pc |-> "fetch", url |-> HostAB, attempt |-> 0,
                   retry |-> 0, stream |-> <<>>, buf |-> Rep(0, BufLen),
                   bytes |-> 0, hasher |-> [absorbed |-> <<>>],
                   out |-> Pending]]
    /\ \E f \in {[exists |-> FALSE], FileOf(Rep(9, MaxBody + 1))} :
        dests = [p \in 1..2 |->
                   [file |-> f, sleeps |-> <<>>, redirects |-> 0]]

\* a mutant of Request: the backoff iterator is one for both calls
Request_sharing_retry(p) ==
    LET c == calls[p]
        d == dests[p]
        counted(c2) ==
            IF too_many(c.attempt + 1)
            THEN [c2 EXCEPT !.attempt = @ + 1, !.pc = "done",
                            !.out = Err("too many attempts")]
            ELSE [c2 EXCEPT !.attempt = @ + 1]
    IN
    /\ c.pc = "fetch"
    /\ \E r \in {Response(200, NoLocation), Response(NotFound, NoLocation),
                 Response(503, NoLocation),
                 Response(TooManyRequests, NoLocation),
                 Response(302, [kind |-> "absolute", url |-> OtherFoo])} :
        IF is_success(r.status)
        THEN /\ calls' = [calls EXCEPT ![p] =
                    [c EXCEPT !.pc = "create", !.stream = body.value,
                              !.url = HostAB, !.attempt = 0, !.retry = 0]]
             /\ dests' = [dests EXCEPT ![p] =
                    [d EXCEPT !.sleeps = <<>>, !.redirects = 0]]
        ELSE IF is_redirection(r.status)
        THEN /\ calls' = [calls EXCEPT ![p] =
                    counted([c EXCEPT !.url = new_url(c.url, r.location).url])]
             /\ dests' = [dests EXCEPT ![p] = [d EXCEPT !.redirects = @ + 1]]
        ELSE IF is_retryable(r.status)
        THEN /\ calls' = [calls EXCEPT
                    ![1] = IF p = 1
                           THEN counted([c EXCEPT !.retry = @ + 1])
                           ELSE [@ EXCEPT !.retry = @ + 1],
                    ![2] = IF p = 2 THEN counted(c) ELSE @]
             /\ dests' = [dests EXCEPT ![p] = [d EXCEPT !.sleeps =
                    Append(@, retry_seconds(calls[1].retry + 1))]]
        ELSE /\ calls' = [calls EXCEPT ![p] =
                    [c EXCEPT !.pc = "done", !.out = Err("NotFound")]]
             /\ UNCHANGED dests
    /\ UNCHANGED <<op, query, ver, candidates, out, arg, token, back, body,
                   dl, file, wait, fetchVars>>

\* one iteration of the loop of get_header in call p: the request at the
\* current URL, the match on its response and the count of the attempt.
\* When get_header returns the response, its locals are gone; the call goes
\* on with the body of the response
Request(p) ==
    LET c == calls[p]
        d == dests[p]
        counted(c2) ==
            IF too_many(c.attempt + 1)
            THEN [c2 EXCEPT !.attempt = @ + 1, !.pc = "done",
                            !.out = Err("too many attempts")]
            ELSE [c2 EXCEPT !.attempt = @ + 1]
    IN
    /\ c.pc = "fetch"
    /\ \E r \in {Response(200, NoLocation), Response(NotFound, NoLocation),
                 Response(503, NoLocation),
                 Response(TooManyRequests, NoLocation),
                 Response(302, [kind |-> "absolute", url |-> OtherFoo])} :
        IF is_success(r.status)
        THEN /\ calls' = [calls EXCEPT ![p] =
                    [c EXCEPT !.pc = "create", !.stream = body.value,
                              !.url = HostAB, !.attempt = 0, !.retry = 0]]
             /\ dests' = [dests EXCEPT ![p] =
                    [d EXCEPT !.sleeps = <<>>, !.redirects = 0]]
        ELSE IF is_redirection(r.status)
        THEN /\ calls' = [calls EXCEPT ![p] =
                    counted([c EXCEPT !.url = new_url(c.url, r.location).url])]
             /\ dests' = [dests EXCEPT ![p] = [d EXCEPT !.redirects = @ + 1]]
        ELSE IF is_retryable(r.status)
        THEN /\ calls' = [calls EXCEPT ![p] =
                    counted([c EXCEPT !.retry = @ + 1])]
             /\ dests' = [dests EXCEPT ![p] = [d EXCEPT !.sleeps =
                    Append(@, retry_seconds(c.retry + 1))]]
        ELSE /\ calls' = [calls EXCEPT ![p] =
                    [c EXCEPT !.pc = "done", !.out = Err("NotFound")]]
             /\ UNCHANGED dests
    /\ UNCHANGED <<op, query, ver, candidates, out, arg, token, back, body,
                   dl, file, wait, fetchVars>>

\* fs::File::create(dest).await? of call p, then its hasher and its buf
Open(p) ==
    /\ calls[p].pc = "create"
    /\ dests' = [dests EXCEPT ![p].file = File_create(@)]
    /\ calls' = [calls EXCEPT ![p] =
            [@ EXCEPT !.pc = "read", !.hasher = [absorbed |-> <<>>],
                      !.buf = Rep(0, BufLen)]]
    /\ UNCHANGED <<op, query, ver, candidates, out, arg, token, back, body,
                   dl, file, wait, fetchVars>>

\* body.read(&mut buf).await? of call p: an error, or 0 at the end of the
\* body, after which the call returns Ok(hasher.finalize()), or between 1
\* and BufLen of the bytes that remain
ReadChunk(p) ==
    LET c == calls[p] IN
    /\ c.pc = "read"
    /\ \/ calls' = [calls EXCEPT ![p] =
                [c EXCEPT !.pc = "done", !.out = Err("read")]]
       \/ \E n \in 0..BufLen :
            /\ n <= Len(c.stream)
            /\ n = 0 <=> c.stream = <<>>
            /\ calls' = [calls EXCEPT ![p] =
                IF n = 0
                THEN [c EXCEPT !.pc = "done", !.bytes = 0,
                               !.out = Ok(Blake2b512(c.hasher.absorbed))]
                ELSE [c EXCEPT !.pc = "write", !.bytes = n,
                               !.buf = filled(@, SubSeq(c.stream, 1, n)),
                               !.stream = SubSeq(@, n + 1, Len(@))]]
    /\ UNCHANGED <<op, query, ver, candidates, out, arg, token, back, body,
                   dl, file, dests, wait, fetchVars>>

\* out.write_all(&buf[..bytes]).await? of call p, then
\* hasher.update(&buf[..bytes])
WriteChunk(p) ==
    LET c == calls[p] IN
    /\ c.pc = "write"
    /\ dests' = [dests EXCEPT
            ![p].file = File_write(@, slice(c.buf, c.bytes))]
    /\ calls' = [calls EXCEPT ![p] =
            [c EXCEPT !.pc = "read",
                      !.hasher = State_update(@, slice(c.buf, c.bytes))]]
    /\ UNCHANGED <<op, query, ver, candidates, out, arg, token, back, body,
                   dl, file, wait, fetchVars>>

NextTwo ==
    \/ \E p \in 1..2 : Request(p)
    \/ \E p \in 1..2 : Open(p)
    \/ \E p \in 1..2 : ReadChunk(p)
    \/ \E p \in 1..2 : WriteChunk(p)
SpecTwo == InitTwo /\ [][NextTwo]_vars

-----------------------------------------------------------------------------
(* Properties of get_header.                                               *)

Done == pc = "done"
TooManyAttempts == Err("too many attempts")

\* the latest response is a 3xx whose Location is given
RedirectWithLocation ==
    /\ res.kind = "ok" /\ is_redirection(res.status)
    /\ res.location # NoLocation

\* the latest response is a 3xx whose Location resolves to a URL
RedirectResolvable ==
    /\ RedirectWithLocation
    /\ res.location.kind \in {"absolute", "abspath", "relpath"}

\* the latest response is a 5xx or a 429
RetryableResponse ==
    /\ res.kind = "ok"
    /\ (res.status \in 500..599 \/ res.status = 429)

\* every request of the call so far was answered by status s
AllAnswered(s) == retried = {s} /\ requests = nRetryable /\ nRedirect = 0

\* C1: when every request receives a 500, the call fails with "too many
\* attempts" after exactly 10 requests have been issued.
C1_AlwaysServerError ==
    (Done /\ AllAnswered(500))
        => (result = TooManyAttempts /\ requests = 10)

\* the backoff schedule of the specification: 5, 15, 30, 60, 60, 60, ...
Schedule(k) == IF k = 1 THEN 5 ELSE IF k = 2 THEN 15 ELSE IF k = 3 THEN 30
               ELSE 60

\* the call received only 503 responses and then a 200
Only503Then200 ==
    /\ Done
    /\ res.kind = "ok" /\ res.status = 200
    /\ nRedirect = 0 /\ retried \subseteq {503}

\* C2: for N in 0..3, N responses 503 followed by a 200 make get_header
\* return that response after exactly N+1 requests and exactly N sleeps,
\* of 5, 15 and 30 seconds in this order.
C2_RetryThenSuccess ==
    (Only503Then200 /\ nRetryable <= 3)
        => /\ result = Ok(res)
           /\ requests = nRetryable + 1
           /\ sleeps = SubSeq(<<5, 15, 30>>, 1, nRetryable)

C2_Witness ==
    /\ Only503Then200 /\ nRetryable = 3
    /\ result = Ok(res) /\ requests = 4 /\ sleeps = <<5, 15, 30>>

\* C3: the k-th retryable response of a call is followed by a sleep of the
\* k-th value of 5, 15, 30, 60, 60, ...; redirect hops add no sleep and
\* neither advance nor reset the position in the schedule.
C3_BackoffSchedule ==
    /\ Len(sleeps) = nRetryable
    /\ \A k \in 1..Len(sleeps) : sleeps[k] = Schedule(k)

C3_Witness ==
    /\ nRedirect = 3 /\ nRetryable = 5
    /\ lastRedir.kind = "some" /\ lastRedir.retried
    /\ pc = "fetch" /\ RetryableResponse
    /\ sleeps = <<5, 15, 30, 60, 60>>

\* the number of responses received that are redirects carrying a Location
\* or 5xx/429
TransientReceived ==
    nRedirect + nRetryable
        + (IF Done /\ RedirectWithLocation /\ ~RedirectResolvable
           THEN 1 ELSE 0)

\* C4 (as stated): redirects carrying a Location and 5xx/429 responses draw
\* from one budget: once more than 10 of them were received, the call has
\* failed with "too many attempts"; no call issues more than 11 requests.
C4_OneBudget ==
    /\ requests <= MAX_ATTEMPTS + 1
    /\ TransientReceived > 10 => (Done /\ result = TooManyAttempts)

\* C4 (amended): redirects whose Location resolves to a URL and 5xx/429
\* responses draw from one budget: once more than 10 of them were received
\* the call has failed with "too many attempts", which happens in no other
\* case; no call issues more than 11 requests.
C4_OneBudgetResolvable ==
    /\ requests <= 11
    /\ nRedirect + nRetryable > 10 => (Done /\ result = TooManyAttempts)
    /\ result = TooManyAttempts => nRedirect + nRetryable = 11

\* a chain of redirects alone exhausts the budget, without any sleep
C4_Witness ==
    /\ Done /\ result = TooManyAttempts
    /\ nRedirect = 11 /\ nRetryable = 0 /\ sleeps = <<>>

\* the latest response is one the claim C5 calls non-retryable
NonRetryable ==
    \/ res.kind = "err"
    \/ /\ res.kind = "ok"
       /\ \/ is_redirection(res.status) /\ res.location = NoLocation
          \/ res.status \notin (200..399) \cup (500..599) \cup {429}

\* C5: a 404, a 3xx without Location, another status outside 2xx, 3xx, 5xx
\* and 429, and a transport failure each end the call at once with
\* NotFound, "unexpected redirect kind", HttpFailure and HttpError: the call
\* is over as soon as the response is handled, without a sleep and without
\* another request.
C5_NonRetryableEndsCall ==
    (pc # "match" /\ requests > 0 /\ NonRetryable)
        => /\ Done
           /\ result =
                IF res.kind = "err" THEN Err("HttpError")
                ELSE IF res.status = 404 THEN Err("NotFound")
                ELSE IF res.status \in 300..399
                     THEN Err("unexpected redirect kind")
                ELSE Err("HttpFailure")
           /\ Len(sleeps) = nRetryable
           /\ requests = nRedirect + nRetryable + 1

\* a 404 ends the call with one attempt left
C5_Witness ==
    /\ Done /\ res.kind = "ok" /\ res.status = 404
    /\ result = Err("NotFound") /\ attempt = 10 /\ requests = 11

\* C6 (as stated): an error returned after a last response that is a 3xx,
\* a 5xx or a 429 is "too many attempts".
C6_TransientAbsorbed ==
    (Done /\ result.kind = "Err" /\ res.kind = "ok"
          /\ (res.status \in 300..399 \/ RetryableResponse))
        => result = TooManyAttempts

\* C6 (amended): an error returned after a last response that is a 5xx, a
\* 429 or a 3xx whose Location resolves to a URL is "too many attempts".
C6_TransientAbsorbedResolvable ==
    (Done /\ result.kind = "Err"
          /\ (RedirectResolvable \/ RetryableResponse))
        => result = TooManyAttempts

C6_Witness ==
    /\ Done /\ result = TooManyAttempts
    /\ RetryableResponse /\ res.status = 429
    /\ nRedirect > 0

\* the Location `location` resolved against the URL `base` (RFC 3986)
Target(base, location) ==
    CASE location.kind = "absolute" -> location.url
      [] location.kind = "abspath"  -> [host |-> base.host,
                                        path |-> location.path]
      [] location.kind = "relpath"  ->
            [host |-> base.host,
             path |-> [i \in 1..Len(base.path) |->
                          IF i < Len(base.path) THEN base.path[i]
                          ELSE location.path[1]]]

\* C7: once a redirect with a Location was followed, every later request
\* (the next one, and each retry after a 5xx/429) goes to the Location
\* resolved against the URL current when the redirect arrived: /foo
\* received at https://host/a/b gives https://host/foo; a 301/308 is
\* followed like any other redirect.
C7_RequestsFollowRedirect ==
    (pc = "match" /\ lastRedir.kind = "some")
        => /\ reqUrl = Target(lastRedir.base, lastRedir.location)
           /\ (lastRedir.base = HostAB
                   /\ lastRedir.location = [kind |-> "abspath",
                                            path |-> <<"foo">>])
                => reqUrl = HostFoo

\* a retry after a backoff goes to the target of a permanent redirect that
\* was received at a URL other than the original one
C7_Witness ==
    /\ pc = "match" /\ lastRedir.kind = "some"
    /\ lastRedir.permanent /\ lastRedir.retried
    /\ lastRedir.base = OtherFoo /\ original_url = HostAB
    /\ lastRedir.location.kind = "relpath"
    /\ reqUrl = OtherFoo

-----------------------------------------------------------------------------
(* Properties of the version/channel model and of the package selection.   *)

\* the positions of the candidates whose version satisfies query.matches
Matching ==
    {i \in 1..Len(candidates.packages) :
        Query_matches(query, candidates.packages[i].version)}

\* C8: get_server_package(query) returns a package only if query.matches
\* holds for its version; the package returned is a candidate of greatest
\* version among those for which query.matches holds; and the result is
\* "no match" exactly when no candidate satisfies query.matches.
C8_BestMatchingPackage ==
    (op = "get_server_package" /\ candidates.ok)
        => /\ out.ok
           /\ (out.pkg = None) <=> (Matching = {})
           /\ out.pkg # None =>
                /\ Query_matches(query, out.pkg.value.version)
                /\ \E i \in Matching : candidates.packages[i] = out.pkg.value
                /\ \A i \in Matching :
                      SpecificLeq(specific(candidates.packages[i].version),
                                  specific(out.pkg.value.version))

\* C9: with a filter, Query.matches is the filter's own test, whatever the
\* channel of the query; without one it is true iff Channel::from_version
\* succeeds on the version and gives the channel of the query, so that no
\* wildcard query matches a prerelease version whose major is not 1.
C9_QueryMatches ==
    op = "matches" =>
        LET v == ver.specific IN
        /\ query.version # None => out = Filter_matches(query.version, ver)
        /\ query.version = None =>
             /\ out = (/\ Channel_from_version(v).ok
                       /\ Channel_from_version(v).channel = query.channel)
             /\ (v.minor.kind \in {"Alpha", "Beta", "Rc"} /\ v.major # 1)
                    => out = FALSE

\* a wildcard query rejects a prerelease of major 2
C9_Witness ==
    /\ op = "matches" /\ query.version = None
    /\ ver.specific.minor.kind = "Rc" /\ ver.specific.major = 2
    /\ out = FALSE

\* C10: Channel::from_version(v) is Nightly iff the minor kind of v is Dev,
\* Stable iff it is Minor or it is Alpha/Beta/Rc with major 1, and an error
\* iff it is Alpha/Beta/Rc with a major other than 1.
C10_ChannelFromVersion ==
    op = "from_version" =>
        LET v == ver.specific
            pre == v.minor.kind \in {"Alpha", "Beta", "Rc"}
        IN
        /\ (out.ok /\ out.channel = "Nightly") <=> (v.minor.kind = "Dev")
        /\ (out.ok /\ out.channel = "Stable")
              <=> (v.minor.kind = "Minor" \/ (pre /\ v.major = 1))
        /\ (~out.ok) <=> (pre /\ v.major # 1)

\* a beta of major 1 goes to the stable channel
C10_Witness ==
    /\ op = "from_version"
    /\ ver.specific.minor.kind = "Beta" /\ ver.specific.major = 1
    /\ out = [ok |-> TRUE, channel |-> "Stable"]


-----------------------------------------------------------------------------
(* Properties of the construction and token form of a Query, checked       *)
(* under SpecBuild.                                                        *)

IsPrerelease(f) == f # None /\ f.minor.kind \in Prerelease

\* C11: for every Filter f, Channel::from_filter(f) is Stable when f has no
\* minor constraint, when the constraint is Minor and when it is
\* Alpha/Beta/Rc with major 1; it is an error in every other case, and it is
\* never Nightly.
C11_ChannelFromFilter ==
    op = "channel_from_filter" =>
        LET f == arg.filter IN
        /\ out # ChannelOk("Nightly")
        /\ IF f.minor = None \/ f.minor.kind = "Minor"
              \/ (f.minor.kind \in Prerelease /\ f.major = 1)
           THEN out = ChannelOk("Stable")
           ELSE ~out.ok

C11_Witness ==
    /\ op = "channel_from_filter"
    /\ arg.filter.major = 2 /\ arg.filter.minor.kind = "Rc"
    /\ ~out.ok

\* C12: a query built with the explicit nightly flag set is
\* {Nightly, no filter}, whatever version text comes with the flag.
C12_NightlyFlagForces ==
    (op = "from_options" /\ arg.nightly) => out = QueryOk(Query_nightly)

\* C13: every constructor of a Query accepts a prerelease version or filter
\* only when its major is 1 and rejects it otherwise: no constructed Query
\* carries a prerelease filter whose major is not 1.
C13_PrereleaseOnlyMajorOne ==
    (op \in Constructors /\ out.ok) =>
        ~(IsPrerelease(out.query.version) /\ out.query.version.major # 1)

\* C14: a Query round-trips through its token: {Stable, no filter} gives "*",
\* {Nightly, no filter} gives "nightly", a query with a filter gives the
\* filter's string form, and deserializing the token gives a query equal to
\* the original.
C14_TokenRoundTrip ==
    (op \in Constructors /\ out.ok /\ back # Idle) =>
        LET q == out.query IN
        /\ token.value =
              IF q.version # None THEN Filter_to_string(q.version)
              ELSE IF q.channel = "Nightly" THEN NightlyText ELSE Star
        /\ back = QueryOk(q)

-----------------------------------------------------------------------------
(* Properties of the package index.                                        *)

IsHex128(h) == Len(h) = 128 /\ \A i \in 1..Len(h) : h[i] \in HexDigits

\* C15 (SpecEntry): every PackageHash::Blake2b value, built by
\* filter_package or parsed from its "blake2b:..." form, holds exactly 128
\* hexadecimal characters.
C15_Blake2bIs128Hex ==
    /\ (op = "filter_package" /\ out # None) => IsHex128(out.value.hash.val)
    /\ (op = "deserialize_hash" /\ out.ok /\ out.hash.kind = "Blake2b")
           => IsHex128(out.hash.val)

\* the three checks on an install reference, as the specification words them
RefIsGood(r) ==
    /\ r.kind = "application/x-tar"
    /\ r.encoding = Some("zstd")
    /\ r.verification.blake2b # None
    /\ IsHex128(r.verification.blake2b.value)

\* the position of the first good reference, 0 when there is none
FirstGood(refs) ==
    IF \E i \in 1..Len(refs) : RefIsGood(refs[i])
    THEN CHOOSE i \in 1..Len(refs) :
            RefIsGood(refs[i]) /\ \A j \in 1..(i - 1) : ~RefIsGood(refs[j])
    ELSE 0

\* C16 (SpecIndexFetch): get_server_packages(channel) gives an empty list
\* when the fetch of the index ends with NotFound, for either channel, and
\* gives back as an error every other failure of the fetch, of reading the
\* body and of parsing it.
C16_NotFoundIsEmpty ==
    op = "get_server_packages" =>
        /\ result = Err("NotFound") => out = Packages(<<>>)
        /\ (result.kind = "Err" /\ result # Err("NotFound"))
               => out = [ok |-> FALSE, error |-> result.error]
        /\ (result.kind = "Ok" /\ body = Unreadable)
               => out = [ok |-> FALSE, error |-> "HttpError"]
        /\ (result.kind = "Ok" /\ body = Malformed)
               => out = [ok |-> FALSE, error |-> "invalid JSON"]

C16_Witness ==
    /\ op = "get_server_packages"
    /\ arg.channel = "Nightly"
    /\ nRedirect > 0 /\ reqUrl # original_url
    /\ result = Err("NotFound")
    /\ out = Packages(<<>>)

\* an entry get_server_packages keeps
WellFormed(e) ==
    /\ e.basename = "edgedb-server"
    /\ Build_parse(e.version).ok
    /\ FirstGood(e.installrefs) # 0
    /\ Url_join(PkgRoot, e.installrefs[FirstGood(e.installrefs)].path).ok

\* the PackageInfo of a well-formed entry
InfoOf(e) ==
    LET r == e.installrefs[FirstGood(e.installrefs)] IN
    [version |-> Build_parse(e.version).build,
     url |-> Url_join(PkgRoot, r.path).url,
     hash |-> Blake2b(r.verification.blake2b.value),
     kind |-> "TarZst",
     size |-> r.verification.size]

InfosOf(l) == [i \in 1..Len(l) |-> InfoOf(l[i])]

\* C17 (SpecIndex): a malformed index entry is dropped alone: the call
\* succeeds and gives exactly the well-formed entries of the server product,
\* in index order, as if the dropped entries were not in the index.
C17_MalformedEntryDroppedAlone ==
    (op = "get_server_packages" /\ arg.fetched.kind = "Ok"
        /\ body \notin {Unreadable, Malformed}) =>
        LET kept == SelectSeq(body.packages, WellFormed) IN
        /\ out = Packages(InfosOf(kept))
        /\ out = get_server_packages(
                    get_json(arg.fetched, RepositoryData(kept)))

C17_Witness ==
    /\ op = "get_server_packages" /\ arg.fetched.kind = "Ok"
    /\ body \notin {Unreadable, Malformed}
    /\ Len(body.packages) = 3
    /\ WellFormed(body.packages[1])
    /\ body.packages[2].installrefs = <<Ref("long")>>
    /\ WellFormed(body.packages[3])
    /\ out.ok /\ Len(out.packages) = 2

\* C18 (SpecEntry): a PackageInfo takes its url, size and hash from the
\* first install reference, in list order, that is a tar archive, encoded
\* with zstd and of valid hash; references before it are skipped, later
\* ones ignored, and none is produced from a reference failing a check.
C18_FirstQualifyingRef ==
    (op = "filter_package" /\ out # None) =>
        LET refs == arg.pkg.installrefs
            i    == FirstGood(refs)
        IN  /\ i # 0
            /\ out.value.url = Url_join(PkgRoot, refs[i].path).url
            /\ out.value.size = refs[i].verification.size
            /\ out.value.hash = Blake2b(refs[i].verification.blake2b.value)

C18_Witness ==
    /\ op = "filter_package" /\ out # None
    /\ arg.pkg.installrefs = <<Ref("long"), Ref("B")>>
    /\ out.value.size = 2

-----------------------------------------------------------------------------
(* Properties of download, checked under SpecDownload.                     *)

\* C19: when download completes successfully the destination file holds
\* exactly the bytes of the body, in order, nothing of a previous file, and
\* the digest returned is the Blake2b-512 hash of exactly those bytes, for
\* every body and every split of it into reads.
C19_FileAndDigestAreBody ==
    (dl.pc = "done" /\ dl.out.kind = "Ok") =>
        /\ file = FileOf(dl.sent)
        /\ dl.out.res = Blake2b512(dl.sent)

C19_Witness ==
    /\ dl.pc = "done" /\ dl.out.kind = "Ok"
    /\ dl.old = FileOf(Rep(9, MaxBody + 1))
    /\ Len(dl.sent) = MaxBody
    /\ dl.reads = 3 /\ dl.writes = 2
    /\ file = FileOf(dl.sent)

\* C20: a read or write failure while streaming ends the call at once with
\* an error: no digest, no chunk read, written or hashed after it, and no
\* second fetch.
C20_StreamFailureAborts ==
    /\ dl.fetches <= 1
    /\ dl.failed # "none" =>
        /\ dl.pc = "done" /\ dl.out.kind = "Err"
        /\ dl.fetches = 1
        /\ dl.updates = dl.reads - 1
        /\ dl.writes = IF dl.failed = "read" THEN dl.reads - 1 ELSE dl.reads

C20_Witness ==
    /\ dl.failed = "write" /\ dl.pc = "done" /\ dl.out = Err("write")
    /\ dl.reads = 2 /\ dl.updates = 1
    /\ dl.stream # <<>>

\* C22 (SpecDownload): download creates or truncates the destination only
\* after the fetch has succeeded: when the fetch fails the destination is
\* left exactly as it was.
C22_DestUntouchedIfFetchFails ==
    /\ dl.pc \in {"get_header", "create"} => file = dl.old
    /\ (dl.pc = "done" /\ dl.reads = 0
            /\ dl.out \in {Err("NotFound"), Err("HttpFailure"),
                           Err("HttpError"), Err("too many attempts"),
                           Err("unexpected redirect kind")})
           => (file = dl.old /\ dl.fetches = 1)

C22_Witness ==
    /\ dl.pc = "done" /\ dl.out = Err("NotFound")
    /\ dl.old = FileOf(Rep(9, MaxBody + 1))
    /\ file = dl.old

-----------------------------------------------------------------------------
(* Further properties of get_header (Spec) and of the Query constructors   *)
(* (SpecBuild).                                                            *)

\* C23 (Spec): every backoff sleep is followed by another request: the call
\* never ends with "too many attempts" right after a sleep, so the response
\* handled last by a finished call is never one that was answered by a sleep.
C23_SleepThenRequest ==
    Done => ~RetryableResponse

\* C24 (SpecBuild): every Query built by Query::nightly, from_option,
\* from_filter, from_version or the deserializer that has channel Nightly
\* carries no version filter.
C24_NightlyHasNoFilter ==
    (op \in Constructors \ {"from_options"} /\ out.ok) =>
        (out.query.channel = "Nightly" => out.query.version = None)

C24_Witness ==
    /\ op = "from_version" /\ arg.specific.minor.kind = "Dev"
    /\ out = QueryOk(Query_nightly)

-----------------------------------------------------------------------------
(* Further properties of PackageHash (SpecEntry).                          *)

\* C25 as stated: every PackageHash, a Blake2b value of 128 characters or
\* an Unknown value holding any string, written as a string and deserialized
\* gives the same variant with the same content.
C25_HashRoundTrip ==
    op = "hash_round_trip" => back = [ok |-> TRUE, hash |-> arg.hash]

\* C25 amended: the round trip holds for a Blake2b value of 128 characters
\* and for an Unknown value whose string does not begin with "blake2b:".
C25_HashRoundTripUnrecognized ==
    (op = "hash_round_trip"
        /\ (arg.hash.kind = "Unknown"
                => strip_prefix(arg.hash.val, Blake2bPrefix) = None))
        => /\ back = [ok |-> TRUE, hash |-> arg.hash]
           /\ token.value = IF arg.hash.kind = "Blake2b"
                            THEN Blake2bPrefix \o arg.hash.val
                            ELSE arg.hash.val

C25_Witness ==
    /\ op = "hash_round_trip"
    /\ arg.hash = Unknown(Rep("a", 40))
    /\ token = Some(Rep("a", 40))
    /\ back = [ok |-> TRUE, hash |-> arg.hash]

\* C27: PackageHash::short returns without panicking for every PackageHash:
\* the bounds of its slice satisfy start <= end <= length, and the result
\* has at most 7 characters.
C27_ShortNeverPanics ==
    op = "short" =>
        /\ out.ok
        /\ out.start <= out.end /\ out.end <= Len(arg.hash.val)
        /\ Len(out.value) <= 7

-----------------------------------------------------------------------------
(* Properties of wait_instance_create, checked under SpecWait.             *)

\* C26: the call returns success only with the instance polled last, whose
\* dsn is not empty; when, before the deadline, the current instance has an
\* empty dsn and a status other than "available" or "creating", the call
\* fails with the creation failure without polling again; it sleeps before
\* a poll only when the status is "creating".
C26_WaitInstanceCreate ==
    LET i   == wait.instance
        bad == i.dsn = "" /\ i.status \notin {"available", "creating"}
    IN  /\ wait.out.kind = "Ok"
            => (wait.out.res = i /\ i.dsn # "" /\ wait.pc = "done")
        /\ (wait.pc = "done" /\ wait.intime /\ bad)
            => wait.out = Err("Failed to create")
        /\ wait.pc \in {"sleep", "poll"} => ~bad
        /\ wait.pc = "sleep" => i.status = "creating"
        /\ (wait.pc = "poll" /\ wait.slept) => i.status = "creating"

C26_Witness ==
    /\ wait.pc = "done" /\ wait.polls = 2 /\ wait.slept
    /\ wait.instance = [dsn |-> "", status |-> "failed"]
    /\ wait.out = Err("Failed to create")

-----------------------------------------------------------------------------
(* Properties of two interleaved download calls, checked under SpecTwo.    *)

\* C21: two download calls for one artifact, interleaved, each with its own
\* destination, share no state: the current URL, the attempt counter and
\* the backoff position of each are those of its own redirects and
\* retryable failures, and each call that completes returns the digest of
\* the full body and leaves the full body in its own destination.
C21_CallsShareNoState ==
    \A p \in 1..2 :
        LET c == calls[p]
            d == dests[p]
        IN  /\ c.retry = Len(d.sleeps)
            /\ c.attempt = Len(d.sleeps) + d.redirects
            /\ d.sleeps = [i \in 1..Len(d.sleeps) |-> retry_seconds(i)]
            /\ c.url = IF d.redirects = 0 THEN HostAB ELSE OtherFoo
            /\ c.out.kind = "Ok"
                => /\ c.out.res = Blake2b512(body.value)
                   /\ d.file = FileOf(body.value)

C21_Witness ==
    /\ Len(body.value) = MaxBody
    /\ calls[1].out = Ok(Blake2b512(body.value))
    /\ dests[1].file = FileOf(body.value)
    /\ calls[2].pc = "fetch" /\ calls[2].url = OtherFoo
    /\ calls[2].retry = 2 /\ calls[2].attempt = 3
    /\ dests[2].file = FileOf(Rep(9, MaxBody + 1))

=============================================================================
